---- MODULE Spec2Model ----
(***************************************************************************)
(* wow-profile-copy-ng: the selection state machine (Operation::update)    *)
(* and the copy engine (do_copy) of src/operation.rs, over an abstract     *)
(* filesystem.                                                             *)
(*                                                                         *)
(* A file name is the sequence of its dot-separated parts                  *)
(* ("a.lua" is <<"a", "lua">>, "README" is <<"README">>, ".lua" is         *)
(* <<"", "lua">>); a path is a sequence of file names, as PathBuf::join    *)
(* builds it.  An Option is <<>> (None) or <<x>> (Some(x)).                *)
(***************************************************************************)
EXTENDS Integers, Sequences, FiniteSets, TLC

VARIABLES install, src_ver, src_wtf, dst_ver, dst_wtf, copy_logs,
          overwrite_account, fs, msg, last, runs

vars == <<install, src_ver, src_wtf, dst_ver, dst_wtf, copy_logs,
          overwrite_account, fs, msg, last, runs>>

(* ---------------------------------------------------------------------- *)
(* Bounds                                                                  *)
(* ---------------------------------------------------------------------- *)

\* Copy messages handled in one behaviour of Spec.
MaxRuns == 1

\* Injected I/O failures (permission denied, disk full, ...) in one copy run
\* of SpecCopy, on top of the failures the filesystem contents cause.
MaxFaults == 1

(* ---------------------------------------------------------------------- *)
(* Names and paths                                                         *)
(* ---------------------------------------------------------------------- *)

None == <<>>
Some(x) == <<x>>

N(s) == <<s>>
F(base, ext) == <<base, ext>>

Join(p, name) == Append(p, name)
Parent(p) == SubSeq(p, 1, Len(p) - 1)
FileNameOf(p) == p[Len(p)]

\* Path::extension: None without an embedded '.', None for a name that
\* begins with '.' and has no other '.', else the part after the last '.'.
extension(name) ==
    IF Len(name) = 1 \/ (Len(name) = 2 /\ name[1] = "")
    THEN None
    ELSE Some(name[Len(name)])

account_files ==
    << F("bindings-cache", "wtf"), F("config-cache", "wtf"),
       F("macros-cache", "txt"), F("edit-mode-cache-account", "txt") >>

character_files ==
    << F("AddOns", "txt"), F("config-cache", "wtf"), F("layout-local", "txt"),
       F("macros-cache", "txt"), F("edit-mode-cache-character", "txt") >>

cache_md5 == F("cache", "md5")
SavedVariables == N("SavedVariables")

Range(s) == { s[i] : i \in 1..Len(s) }

(* ---------------------------------------------------------------------- *)
(* The filesystem: fs.dirs is the set of directories, fs.files maps each   *)
(* regular file to its content.  A content is the path the bytes were      *)
(* first stored at; Truncated is the content of a file cut to length 0.    *)
(* ---------------------------------------------------------------------- *)

Truncated == <<>>

Exists(f, p) == p \in f.dirs \/ p \in DOMAIN f.files

\* The order in which the operating system lists directory entries.
EntryOrder ==
    << F("a", "lua"), F("b", "lua"), F("c", "lua"), F("d", "lua"),
       F("notes", "txt"), <<"a", "lua", "bak">>, N("README"), F("", "lua"),
       F("A", "LUA") >>

Reverse(s) == [ i \in 1..Len(s) |-> s[Len(s) + 1 - i] ]

\* std::fs::copy(src, dst).  Copying a file onto itself opens the
\* destination with O_TRUNC before reading the source.
fs_copy(f, src, dst, fault) ==
    IF fault THEN [ok |-> FALSE, fs |-> f, err |-> "permission denied"]
    ELSE IF src \notin DOMAIN f.files
    THEN [ok |-> FALSE, fs |-> f,
          err |-> IF src \in f.dirs THEN "not a regular file" ELSE "not found"]
    ELSE IF dst \in f.dirs
    THEN [ok |-> FALSE, fs |-> f, err |-> "is a directory"]
    ELSE IF Parent(dst) \notin f.dirs
    THEN [ok |-> FALSE, fs |-> f, err |-> "not found"]
    ELSE [ok |-> TRUE,
          fs |-> [f EXCEPT !.files =
                    (dst :> (IF src = dst THEN Truncated ELSE f.files[src])) @@ @],
          err |-> ""]

\* std::fs::remove_file(p)
fs_remove_file(f, p, fault) ==
    IF fault THEN [ok |-> FALSE, fs |-> f, err |-> "permission denied"]
    ELSE IF p \notin DOMAIN f.files
    THEN [ok |-> FALSE, fs |-> f,
          err |-> IF p \in f.dirs THEN "is a directory" ELSE "not found"]
    ELSE [ok |-> TRUE,
          fs |-> [f EXCEPT !.files = [q \in (DOMAIN @) \ {p} |-> @[q]]],
          err |-> ""]

\* std::fs::read_dir(dir) collected into a Vec: the names directly inside.
fs_read_dir(f, dir, fault, rev) ==
    IF fault THEN [ok |-> FALSE, entries |-> <<>>, err |-> "permission denied"]
    ELSE IF dir \notin f.dirs
    THEN [ok |-> FALSE, entries |-> <<>>, err |-> "not found"]
    ELSE LET Present(n) == Exists(f, Join(dir, n))
             listed == SelectSeq(EntryOrder, Present)
         IN  [ok |-> TRUE,
              entries |-> IF rev THEN Reverse(listed) ELSE listed,
              err |-> ""]

\* Path::try_exists
fs_try_exists(f, p, fault) ==
    IF fault THEN [ok |-> FALSE, val |-> FALSE, err |-> "permission denied"]
    ELSE [ok |-> TRUE, val |-> Exists(f, p), err |-> ""]

Prefixes(p) == { SubSeq(p, 1, k) : k \in 1..Len(p) }

\* std::fs::create_dir_all(p)
fs_create_dir_all(f, p, fault) ==
    IF fault THEN [ok |-> FALSE, fs |-> f, err |-> "permission denied"]
    ELSE IF \E q \in Prefixes(p) : q \in DOMAIN f.files
    THEN [ok |-> FALSE, fs |-> f, err |-> "not a directory"]
    ELSE [ok |-> TRUE, fs |-> [f EXCEPT !.dirs = @ \cup Prefixes(p)], err |-> ""]

(* ---------------------------------------------------------------------- *)
(* Log lines, the trace of filesystem calls, injected failures             *)
(* ---------------------------------------------------------------------- *)

\* One line of the log: `what` is a path (a bare file name is a path of
\* length 1), `err` the text of the io::Error.
Line(kind, what, err) == [kind |-> kind, what |-> what, err |-> err]

SkipLine == Line("skipping account copy.", <<>>, "")
NotReadyLine == Line("", <<>>, "operation not ready for copying!")
FatalLine(err) == Line("", <<>>, err)
CreatingLine(dir) ==
    Line("destination savedvariables dir missing, creating:", dir, "")

\* One filesystem call of a run.
Call(op, src, dst, ok) == [op |-> op, src |-> src, dst |-> dst, ok |-> ok]

\* An injected failure names the call it hits: the stage and the file.
Fault(stage, name) == <<stage, name>>
NoName == N("")
ListStage(level) == IF level = "acct" THEN "acct_list" ELSE "char_list"
LuaStage(level) == IF level = "acct" THEN "acct_lua" ELSE "char_lua"

\* The running state of do_copy: filesystem, log so far, calls so far, and
\* the error a `?` returned with (None while running).
Ctx(f) == [fs |-> f, log |-> <<>>, ops |-> <<>>, err |-> None]

(* ---------------------------------------------------------------------- *)
(* do_copy                                                                 *)
(* ---------------------------------------------------------------------- *)

\* Operation::is_ready
is_ready(op) ==
    /\ op.install # None
    /\ op.src_ver # None
    /\ op.src_wtf # None
    /\ op.dst_ver # None
    /\ op.dst_wtf # None

src_account(op) == op.src_wtf[1].account
dst_account(op) == op.dst_wtf[1].account

account_root(op, ver, account) ==
    op.install[1].install_dir \o << ver[1].name, N("WTF"), N("Account"), account >>

src_root(op) == account_root(op, op.src_ver, src_account(op))
dst_root(op) == account_root(op, op.dst_ver, dst_account(op))

src_character(op) ==
    src_root(op) \o << op.src_wtf[1].realm, op.src_wtf[1].character >>
dst_character(op) ==
    dst_root(op) \o << op.dst_wtf[1].realm, op.dst_wtf[1].character >>

\* variant of skip_account: overwrite_account ignored
SkipOnlySameAccount(op) == src_account(op) = dst_account(op)

\* the condition of the `if` that skips the account-level step
skip_account(op) ==
    src_account(op) = dst_account(op) \/ ~op.overwrite_account

\* the `match e.path().extension()` that keeps an entry of SavedVariables
is_lua(name) == extension(name) = Some("lua")

\* variant of copy_logged: a failing copy is propagated, not logged
CopyLoggedStop(c, src, dst, named, fault) ==
    LET r == fs_copy(c.fs, src, dst, fault)
    IN  [c EXCEPT !.fs = r.fs,
                  !.log = IF r.ok
                          THEN Append(@, Line("copied", <<FileNameOf(named)>>, ""))
                          ELSE @,
                  !.ops = Append(@, Call("copy", src, dst, r.ok)),
                  !.err = IF r.ok THEN @ ELSE Some(r.err)]

\* variant of copy_logged: the arguments of fs::copy exchanged
CopyLoggedSwapped(c, src, dst, named, fault) ==
    LET r == fs_copy(c.fs, dst, src, fault)
    IN  [c EXCEPT !.fs = r.fs,
                  !.log = Append(@, IF r.ok
                                    THEN Line("copied", <<FileNameOf(named)>>, "")
                                    ELSE Line("error copying", named, r.err)),
                  !.ops = Append(@, Call("copy", src, dst, r.ok))]

\* one fs::copy and its log line: `named` is the path the line names
copy_logged(c, src, dst, named, fault) ==
    LET r == fs_copy(c.fs, src, dst, fault)
    IN  [c EXCEPT !.fs = r.fs,
                  !.log = Append(@, IF r.ok
                                    THEN Line("copied", <<FileNameOf(named)>>, "")
                                    ELSE Line("error copying", named, r.err)),
                  !.ops = Append(@, Call("copy", src, dst, r.ok))]

\* the `for` loops over a list of file names: src_dir/name -> dst_dir/name
RECURSIVE copy_each(_, _, _, _, _, _, _)
copy_each(c, names, src_dir, dst_dir, name_src, stage, faults) ==
    IF names = <<>> THEN c
    ELSE LET src == Join(src_dir, Head(names))
             dst == Join(dst_dir, Head(names))
             c1 == copy_logged(c, src, dst, IF name_src THEN src ELSE dst,
                               Fault(stage, Head(names)) \in faults)
         IN  copy_each(c1, Tail(names), src_dir, dst_dir, name_src, stage, faults)

\* variant of remove_cache: a failing removal is propagated, not logged
RemoveCacheFatal(c, root, stage, faults) ==
    LET cache == Join(root, cache_md5)
        r == fs_remove_file(c.fs, cache, Fault(stage, NoName) \in faults)
    IN  [c EXCEPT !.fs = r.fs,
                  !.log = IF r.ok
                          THEN Append(@, Line("removed", <<FileNameOf(cache)>>, ""))
                          ELSE @,
                  !.ops = Append(@, Call("remove_file", <<>>, cache, r.ok)),
                  !.err = IF r.ok THEN @ ELSE Some(r.err)]

\* fs::remove_file of root/cache.md5 and its log line
remove_cache(c, root, stage, faults) ==
    LET cache == Join(root, cache_md5)
        r == fs_remove_file(c.fs, cache, Fault(stage, NoName) \in faults)
    IN  [c EXCEPT !.fs = r.fs,
                  !.log = Append(@, IF r.ok
                                    THEN Line("removed", <<FileNameOf(cache)>>, "")
                                    ELSE Line("error removing", cache, r.err)),
                  !.ops = Append(@, Call("remove_file", <<>>, cache, r.ok))]

\* variant of copy_lua: a directory that cannot be listed is skipped
ListSkipUnreadable(c, src_dir, dst_dir, name_src, level, env) ==
    LET r == fs_read_dir(c.fs, src_dir,
                         Fault(ListStage(level), NoName) \in env.faults, env.rev)
        c1 == [c EXCEPT !.ops = Append(@, Call("read_dir", src_dir, <<>>, r.ok))]
    IN  IF ~r.ok THEN c1
        ELSE copy_each(c1, SelectSeq(r.entries, is_lua), src_dir, dst_dir,
                       name_src, LuaStage(level), env.faults)

\* fs::read_dir(src_dir)?.collect()? and the loop over the .lua entries
copy_lua(c, src_dir, dst_dir, name_src, level, env) ==
    LET r == fs_read_dir(c.fs, src_dir,
                         Fault(ListStage(level), NoName) \in env.faults, env.rev)
        c1 == [c EXCEPT !.ops = Append(@, Call("read_dir", src_dir, <<>>, r.ok))]
    IN  IF ~r.ok THEN [c1 EXCEPT !.err = Some(r.err)]
        ELSE copy_each(c1, SelectSeq(r.entries, is_lua), src_dir, dst_dir,
                       name_src, LuaStage(level), env.faults)

\* the account-level step (the `if`/`else` on skip_account)
account_step(c, op, env) ==
    IF skip_account(op)
    THEN [c EXCEPT !.log = Append(@, SkipLine)]
    ELSE LET c1 == copy_each(c, account_files, src_root(op), dst_root(op),
                             TRUE, "acct", env.faults)
             c2 == copy_lua(c1, Join(src_root(op), SavedVariables),
                            Join(dst_root(op), SavedVariables),
                            TRUE, "acct", env)
         IN  IF c2.err # None THEN c2
             ELSE remove_cache(c2, dst_root(op), "acct_rm", env.faults)

\* variant of ensure_dst_dir: the creation is logged but not done
EnsureNoCreate(c, dir, faults) ==
    LET ex == fs_try_exists(c.fs, dir, Fault("exists", NoName) \in faults)
        c1 == [c EXCEPT !.ops = Append(@, Call("try_exists", <<>>, dir, ex.ok))]
    IN  IF ~ex.ok THEN [c1 EXCEPT !.err = Some(ex.err)]
        ELSE IF ex.val THEN c1
        ELSE [c1 EXCEPT !.log = Append(@, CreatingLine(dir))]

\* `if !dst_savedvars.try_exists()? { log.push(..); fs::create_dir_all(..)?; }`
ensure_dst_dir(c, dir, faults) ==
    LET ex == fs_try_exists(c.fs, dir, Fault("exists", NoName) \in faults)
        c1 == [c EXCEPT !.ops = Append(@, Call("try_exists", <<>>, dir, ex.ok))]
    IN  IF ~ex.ok THEN [c1 EXCEPT !.err = Some(ex.err)]
        ELSE IF ex.val THEN c1
        ELSE LET cr == fs_create_dir_all(c1.fs, dir,
                                         Fault("create", NoName) \in faults)
             IN  [c1 EXCEPT !.fs = cr.fs,
                            !.log = Append(@, CreatingLine(dir)),
                            !.ops = Append(@, Call("create_dir_all", <<>>, dir, cr.ok)),
                            !.err = IF cr.ok THEN @ ELSE Some(cr.err)]

\* variant of character_step: the destination SavedVariables directory is
\* checked and created before the catalog files are copied
CharacterStepDirFirst(c, op, env) ==
    LET src_savedvars == Join(src_character(op), SavedVariables)
        dst_savedvars == Join(dst_character(op), SavedVariables)
        c1 == ensure_dst_dir(c, dst_savedvars, env.faults)
        c2 == copy_each(c1, character_files, src_character(op), dst_character(op),
                        FALSE, "char", env.faults)
        c3 == copy_lua(c2, src_savedvars, dst_savedvars, FALSE, "char", env)
    IN  IF c1.err # None THEN c1
        ELSE IF c3.err # None THEN c3
        ELSE remove_cache(c3, dst_character(op), "char_rm", env.faults)

\* the character-level step
character_step(c, op, env) ==
    LET src_savedvars == Join(src_character(op), SavedVariables)
        dst_savedvars == Join(dst_character(op), SavedVariables)
        c1 == copy_each(c, character_files, src_character(op), dst_character(op),
                        FALSE, "char", env.faults)
        c2 == ensure_dst_dir(c1, dst_savedvars, env.faults)
        c3 == copy_lua(c2, src_savedvars, dst_savedvars, FALSE, "char", env)
    IN  IF c2.err # None THEN c2
        ELSE IF c3.err # None THEN c3
        ELSE remove_cache(c3, dst_character(op), "char_rm", env.faults)

\* variant of do_copy: not ready returns an empty log instead of the error
DoCopyNotReadyOk(op, f, env) ==
    IF ~is_ready(op)
    THEN Ctx(f)
    ELSE LET c1 == account_step(Ctx(f), op, env)
         IN  IF c1.err # None THEN c1 ELSE character_step(c1, op, env)

\* do_copy: the final context; Ok(log) when err is None, else Err(err)
do_copy(op, f, env) ==
    IF ~is_ready(op)
    THEN [Ctx(f) EXCEPT !.err = Some(NotReadyLine.err)]
    ELSE LET c1 == account_step(Ctx(f), op, env)
         IN  IF c1.err # None THEN c1 ELSE character_step(c1, op, env)

\* variant of logs_of: the error is appended to the lines logged so far
LogsKeepPartial(c) ==
    IF c.err = None THEN Some(c.log) ELSE Some(Append(c.log, FatalLine(c.err[1])))

\* the Copy arm of Operation::update: what copy_logs becomes
logs_of(c) ==
    IF c.err = None THEN Some(c.log) ELSE Some(<< FatalLine(c.err[1]) >>)

(* ---------------------------------------------------------------------- *)
(* The install model (module wow): discovery of versions and WTF entries   *)
(* ---------------------------------------------------------------------- *)

Root == << N("wow") >>
OtherRoot == << N("wow-classic") >>
Roots == { Root, OtherRoot, << N("Games") >> }
Retail == N("_retail_")
Classic == N("_classic_")
AcctX == N("ACCT-X")
AcctW == N("ACCT-W")
Realm == N("Realm")
CharY == N("Yara")
CharZ == N("Zed")

\* The order in which the operating system lists subdirectories.
DirOrder ==
    << Retail, Classic, N("WTF"), N("Account"), AcctX, AcctW, SavedVariables,
       Realm, CharY, CharZ >>

SubDirs(f, dir) ==
    LET IsDir(n) == Join(dir, n) \in f.dirs
    IN  SelectSeq(DirOrder, IsDir)

RECURSIVE Flatten(_)
Flatten(ss) == IF ss = <<>> THEN <<>> ELSE Head(ss) \o Flatten(Tail(ss))

\* the WTF entries of one realm folder: one per character subfolder
WtfsOfRealm(f, acct_dir, account, realm) ==
    LET chars == SubDirs(f, Join(acct_dir, realm))
    IN  [ i \in 1..Len(chars) |->
            [ account |-> account, realm |-> realm, character |-> chars[i],
              has_vars |-> (acct_dir \o << realm, chars[i], SavedVariables >>)
                              \in f.dirs ] ]

WtfsOfAccount(f, acct_dir, account) ==
    LET realms == SubDirs(f, acct_dir)
    IN  Flatten([ i \in 1..Len(realms) |->
                    WtfsOfRealm(f, acct_dir, account, realms[i]) ])

WtfsOfVersion(f, ver_dir) ==
    LET accounts_dir == ver_dir \o << N("WTF"), N("Account") >>
        accounts == SubDirs(f, accounts_dir)
    IN  Flatten([ i \in 1..Len(accounts) |->
                    WtfsOfAccount(f, Join(accounts_dir, accounts[i]), accounts[i]) ])

IsVersionDir(f, ver_dir) == (ver_dir \o << N("WTF"), N("Account") >>) \in f.dirs

\* wow::get_wow_install(root): Some(Install) or None when no version is found
get_wow_install(f, root) ==
    LET IsVer(n) == IsVersionDir(f, Join(root, n))
        names == SelectSeq(SubDirs(f, root), IsVer)
    IN  IF names = <<>> THEN None
        ELSE Some([ install_dir |-> root,
                    versions |-> [ i \in 1..Len(names) |->
                                     [ name |-> names[i],
                                       wtfs |-> WtfsOfVersion(f, Join(root, names[i])) ] ] ])

\* Display of a Version
VersionToString(v) ==
    IF v.name = Retail THEN "Retail"
    ELSE IF v.name = Classic THEN "Classic"
    ELSE "Other"

(* ---------------------------------------------------------------------- *)
(* Initial filesystems                                                     *)
(* ---------------------------------------------------------------------- *)

AcctDir(v, a) == Root \o << v, N("WTF"), N("Account"), a >>
CharDir(v, a, c) == AcctDir(v, a) \o << Realm, c >>
In(dir, names) == { Join(dir, n) : n \in names }
SV(dir) == Join(dir, SavedVariables)

\* w_vars: account ACCT-W has a SavedVariables folder;
\* y_vars: the Classic character has a SavedVariables folder.
InitialFiles(w_vars, y_vars) ==
         In(AcctDir(Retail, AcctX), Range(account_files) \cup {cache_md5})
    \cup In(SV(AcctDir(Retail, AcctX)), {F("a", "lua"), F("b", "lua"), F("notes", "txt")})
    \cup In(CharDir(Retail, AcctX, CharY), Range(character_files) \cup {cache_md5})
    \cup In(SV(CharDir(Retail, AcctX, CharY)),
            {F("a", "lua"), F("notes", "txt"), <<"a", "lua", "bak">>})
    \cup In(AcctDir(Retail, AcctW), {F("bindings-cache", "wtf"), F("config-cache", "wtf")})
    \cup (IF w_vars
          THEN In(SV(AcctDir(Retail, AcctW)),
                  {F("c", "lua"), N("README"), F("", "lua"), F("A", "LUA")})
          ELSE {})
    \cup In(CharDir(Retail, AcctW, CharZ),
            {F("AddOns", "txt"), F("config-cache", "wtf"), F("macros-cache", "txt"),
             cache_md5})
    \cup In(SV(CharDir(Retail, AcctW, CharZ)), {F("a", "lua"), F("c", "lua")})
    \cup In(AcctDir(Classic, AcctX), {F("config-cache", "wtf"), cache_md5})
    \cup In(SV(AcctDir(Classic, AcctX)), {F("a", "lua")})
    \cup In(CharDir(Classic, AcctX, CharY), {F("AddOns", "txt"), F("layout-local", "txt")})
    \cup (IF y_vars
          THEN In(SV(CharDir(Classic, AcctX, CharY)), {F("a", "lua"), F("b", "lua")})
          ELSE {})

InitialDirs(w_vars, y_vars) ==
    UNION { Prefixes(d) : d \in
              {  SV(AcctDir(Retail, AcctX)), SV(CharDir(Retail, AcctX, CharY)),
                 Join(SV(CharDir(Retail, AcctX, CharY)), F("d", "lua")),
                 SV(CharDir(Retail, AcctW, CharZ)),
                 SV(AcctDir(Classic, AcctX)), CharDir(Classic, AcctX, CharY),
                 OtherRoot \o << Classic, N("WTF"), N("Account"), AcctX, Realm, CharY >>,
                 << N("Games") >> }
              \cup (IF w_vars THEN {SV(AcctDir(Retail, AcctW))} ELSE {})
              \cup (IF y_vars THEN {SV(CharDir(Classic, AcctX, CharY))} ELSE {}) }

InitialFS(w_vars, y_vars) ==
    [ dirs |-> InitialDirs(w_vars, y_vars),
      files |-> [ p \in InitialFiles(w_vars, y_vars) |-> p ] ]

FSConfigs == { InitialFS(w, y) : w \in BOOLEAN, y \in BOOLEAN }

(* ---------------------------------------------------------------------- *)
(* Operation: state, view and update                                       *)
(* ---------------------------------------------------------------------- *)

\* enum Message: the messages of the application, with their payload
MsgInstall(chosen) == [ type |-> "Install", chosen |-> chosen ]
MsgVersion(ver, is_source) ==
    [ type |-> "Version", ver |-> ver, is_source |-> is_source ]
MsgWtf(wtf, is_source) == [ type |-> "Wtf", wtf |-> wtf, is_source |-> is_source ]
MsgCopy == [ type |-> "Copy" ]
MsgReset(is_source) == [ type |-> "Reset", is_source |-> is_source ]
MsgOverwriteToggle(o) == [ type |-> "OverwriteToggle", o |-> o ]

\* wow::prompt_folder: the folder chooser is dismissed, or a folder is
\* picked and scanned
prompt_folder(f) == {None} \cup { get_wow_install(f, r) : r \in Roots }

\* the fields of Operation that do_copy reads
Op ==
    [ install |-> install, src_ver |-> src_ver, src_wtf |-> src_wtf,
      dst_ver |-> dst_ver, dst_wtf |-> dst_wtf,
      overwrite_account |-> overwrite_account ]

VerOf(is_source) == IF is_source THEN src_ver ELSE dst_ver
WtfOf(is_source) == IF is_source THEN src_wtf ELSE dst_wtf

\* variant of OfferedWtfs: the source column shows every entry
OfferedWtfsUnfiltered(inst, ver, is_source) ==
    LET Same(v) == VersionToString(v) = VersionToString(ver)
        found == SelectSeq(inst.versions, Same)
    IN  IF found = <<>> THEN {}
        ELSE Range(Head(found).wtfs)

\* ver_column, second branch: the WTF buttons shown for a chosen version.
\* When no version of the install has the display string of the chosen
\* one, find(..).unwrap() panics and ends the program: no button is shown.
OfferedWtfs(inst, ver, is_source) ==
    LET Same(v) == VersionToString(v) = VersionToString(ver)
        found == SelectSeq(inst.versions, Same)
    IN  IF found = <<>> THEN {}
        ELSE { w \in Range(Head(found).wtfs) :
                 ~is_source \/ (is_source /\ w.has_vars) }

\* Operation::is_same_account / is_same_ver with unwrap_or(false)
is_same_account == src_wtf # None /\ dst_wtf # None /\
                   src_wtf[1].account = dst_wtf[1].account
is_same_ver == src_ver # None /\ dst_ver # None /\ src_ver[1] = dst_ver[1]

\* ver_column, third branch: the checkbox of the destination column
ToggleOffered ==
    /\ install # None
    /\ dst_ver # None /\ dst_wtf # None
    /\ (~is_same_account \/ ~is_same_ver)

\* Message::OverwriteToggle(o): the checkbox sends the negation of the
\* value it shows
OverwriteToggle ==
    /\ ToggleOffered
    /\ \E o \in {~overwrite_account} :
          /\ overwrite_account' = o
          /\ msg' = Some(MsgOverwriteToggle(o))
    /\ last' = None
    /\ UNCHANGED <<install, src_ver, src_wtf, dst_ver, dst_wtf, copy_logs, fs,
                   runs>>

\* variant of Install: a new installation keeps the selections
InstallKeepsSelection ==
    \E inst \in prompt_folder(fs) :
        /\ IF inst # None
           THEN /\ install' = inst
                /\ UNCHANGED <<src_ver, src_wtf, dst_ver, dst_wtf>>
           ELSE UNCHANGED <<install, src_ver, src_wtf, dst_ver, dst_wtf>>
        /\ msg' = Some(MsgInstall(inst))
        /\ last' = None
        /\ UNCHANGED <<copy_logs, overwrite_account, fs, runs>>

\* Message::Install: the folder chooser yields nothing, or an installation
Install ==
    \E inst \in prompt_folder(fs) :
        /\ IF inst # None
           THEN /\ install' = inst
                /\ src_ver' = None /\ dst_ver' = None
                /\ src_wtf' = None /\ dst_wtf' = None
           ELSE UNCHANGED <<install, src_ver, src_wtf, dst_ver, dst_wtf>>
        /\ msg' = Some(MsgInstall(inst))
        /\ last' = None
        /\ UNCHANGED <<copy_logs, overwrite_account, fs, runs>>

\* variant of Reset: the WTF of the side is kept
ResetKeepsWtf ==
    /\ install # None
    /\ \E is_source \in BOOLEAN :
        /\ IF is_source
           THEN /\ src_ver' = None
                /\ UNCHANGED <<src_wtf, dst_ver, dst_wtf>>
           ELSE /\ dst_ver' = None
                /\ UNCHANGED <<dst_wtf, src_ver, src_wtf>>
        /\ msg' = Some(MsgReset(is_source))
    /\ last' = None
    /\ UNCHANGED <<install, copy_logs, overwrite_account, fs, runs>>

\* Message::Reset(is_source)
Reset ==
    /\ install # None
    /\ \E is_source \in BOOLEAN :
        /\ IF is_source
           THEN /\ src_ver' = None /\ src_wtf' = None
                /\ UNCHANGED <<dst_ver, dst_wtf>>
           ELSE /\ dst_ver' = None /\ dst_wtf' = None
                /\ UNCHANGED <<src_ver, src_wtf>>
        /\ msg' = Some(MsgReset(is_source))
    /\ last' = None
    /\ UNCHANGED <<install, copy_logs, overwrite_account, fs, runs>>

\* Message::Version(ver, is_source), sent by a button of the first branch
Version ==
    /\ install # None
    /\ \E is_source \in BOOLEAN :
        /\ VerOf(is_source) = None
        /\ \E ver \in Range(install[1].versions) :
            /\ IF is_source
               THEN src_ver' = Some(ver) /\ UNCHANGED dst_ver
               ELSE dst_ver' = Some(ver) /\ UNCHANGED src_ver
            /\ msg' = Some(MsgVersion(ver, is_source))
    /\ last' = None
    /\ UNCHANGED <<install, src_wtf, dst_wtf, copy_logs, overwrite_account, fs,
                   runs>>

\* variant of Wtf: the side of the message is ignored
WtfIgnoresSide ==
    /\ install # None
    /\ \E is_source \in BOOLEAN :
        /\ VerOf(is_source) # None /\ WtfOf(is_source) = None
        /\ \E wtf \in OfferedWtfs(install[1], VerOf(is_source)[1], is_source) :
            /\ src_wtf' = Some(wtf) /\ UNCHANGED dst_wtf
            /\ msg' = Some(MsgWtf(wtf, is_source))
    /\ last' = None
    /\ UNCHANGED <<install, src_ver, dst_ver, copy_logs, overwrite_account, fs,
                   runs>>

\* Message::Wtf(wtf, is_source), sent by a button of the second branch
Wtf ==
    /\ install # None
    /\ \E is_source \in BOOLEAN :
        /\ VerOf(is_source) # None /\ WtfOf(is_source) = None
        /\ \E wtf \in OfferedWtfs(install[1], VerOf(is_source)[1], is_source) :
            /\ IF is_source
               THEN src_wtf' = Some(wtf) /\ UNCHANGED dst_wtf
               ELSE dst_wtf' = Some(wtf) /\ UNCHANGED src_wtf
            /\ msg' = Some(MsgWtf(wtf, is_source))
    /\ last' = None
    /\ UNCHANGED <<install, src_ver, dst_ver, copy_logs, overwrite_account, fs,
                   runs>>

\* Message::Copy in an environment env: do_copy and the match on its result.
\* `msg` is the message handled last.  After a Copy, `last` records the run:
\* the Operation it read, the filesystem and copy_logs before it, and the
\* final context of do_copy; after any other message it is None.
Copy(env) ==
    LET c == do_copy(Op, fs, env)
    IN  /\ copy_logs' = logs_of(c)
        /\ fs' = c.fs
        /\ msg' = Some(MsgCopy)
        /\ last' = Some([ op |-> Op, before |-> fs, prev |-> copy_logs, run |-> c ])
        /\ runs' = runs + 1
        /\ UNCHANGED <<install, src_ver, src_wtf, dst_ver, dst_wtf,
                       overwrite_account>>

(* ---------------------------------------------------------------------- *)
(* Environments: which calls fail for reasons outside the filesystem       *)
(* model, and whether directories are listed in reverse                    *)
(* ---------------------------------------------------------------------- *)

\* the SavedVariables entries whose copy an environment may fail
FaultyEntries == { F("a", "lua"), F("b", "lua"), F("c", "lua"), F("d", "lua") }

AllFaults ==
         { Fault("acct", n) : n \in Range(account_files) }
    \cup { Fault("char", n) : n \in Range(character_files) }
    \cup { Fault(s, n) : s \in {"acct_lua", "char_lua"}, n \in FaultyEntries }
    \cup { Fault(s, NoName) :
             s \in {"acct_list", "acct_rm", "exists", "create", "char_list", "char_rm"} }

RECURSIVE SubsetsUpTo(_, _)
SubsetsUpTo(S, k) ==
    IF k = 0 THEN {{}}
    ELSE LET P == SubsetsUpTo(S, k - 1)
         IN  P \cup { T \cup {x} : T \in P, x \in S }

Envs(k) == [ faults : SubsetsUpTo(AllFaults, k), rev : BOOLEAN ]
QuietEnv == [ faults |-> {}, rev |-> FALSE ]

(* ---------------------------------------------------------------------- *)
(* Spec: the application, driven by the messages its view offers           *)
(* ---------------------------------------------------------------------- *)

\* the filesystems the application is started on
StartConfigs == { InitialFS(FALSE, FALSE), InitialFS(TRUE, TRUE) }

\* Operation::default
Init ==
    /\ fs \in StartConfigs
    /\ install \in {None, get_wow_install(fs, Root)}
    /\ src_ver = None /\ dst_ver = None
    /\ src_wtf = None /\ dst_wtf = None
    /\ copy_logs = None
    /\ overwrite_account = TRUE
    /\ msg = None
    /\ last = None
    /\ runs = 0

\* the "Go!" button
Go == install # None /\ runs < MaxRuns /\ Copy(QuietEnv)

Next == Install \/ Reset \/ Version \/ Wtf \/ OverwriteToggle \/ Go

Spec == Init /\ [][Next]_vars

(* ---------------------------------------------------------------------- *)
(* SpecCopy: one Copy message, from every selection the view can lead to   *)
(* (and from the state without an installation), under every environment   *)
(* ---------------------------------------------------------------------- *)

Sides(inst, is_source) ==
    IF inst = None THEN { <<None, None>> }
    ELSE      { <<None, None>> }
         \cup { <<Some(v), None>> : v \in Range(inst[1].versions) }
         \cup UNION { { <<Some(v), Some(w)>> : w \in OfferedWtfs(inst[1], v, is_source) } :
                      v \in Range(inst[1].versions) }

InitCopy ==
    /\ fs \in FSConfigs
    /\ install \in {None, get_wow_install(fs, Root)}
    /\ \E s \in Sides(install, TRUE) : src_ver = s[1] /\ src_wtf = s[2]
    /\ \E d \in Sides(install, FALSE) : dst_ver = d[1] /\ dst_wtf = d[2]
    /\ copy_logs \in {None, Some(<< NotReadyLine >>)}
    /\ overwrite_account \in BOOLEAN
    /\ msg = None
    /\ last = None
    /\ runs = 0

CopyOnce == runs = 0 /\ \E env \in Envs(MaxFaults) : Copy(env)

NextCopy == CopyOnce

SpecCopy == InitCopy /\ [][NextCopy]_vars

(* ---------------------------------------------------------------------- *)
(* Vocabulary of the properties: the last run, as `last` recorded it       *)
(* ---------------------------------------------------------------------- *)

Ran == last # None
LOp == last[1].op
LRun == last[1].run
Before == last[1].before
After == last[1].run.fs
Calls == last[1].run.ops
Log == last[1].run.log

AnyAbsent(o) ==
    \/ o.install = None
    \/ o.src_ver = None \/ o.src_wtf = None
    \/ o.dst_ver = None \/ o.dst_wtf = None

RanReady == Ran /\ ~AnyAbsent(LOp)

\* the condition under which the account-level step is to be skipped
SkipCase(o) ==
    o.src_wtf[1].account = o.dst_wtf[1].account \/ o.overwrite_account = FALSE

IsUnder(p, dir) == Len(p) > Len(dir) /\ SubSeq(p, 1, Len(dir)) = dir

\* the account-scoped paths of an account root
AccountScoped(root, p) ==
    \/ p \in In(root, Range(account_files) \cup {cache_md5})
    \/ p = SV(root)
    \/ IsUnder(p, SV(root))

AllPaths(f) == f.dirs \cup DOMAIN f.files

\* p is the same thing (absent, directory, or file of the same content) in f and g
SameAt(f, g, p) ==
    /\ (p \in f.dirs) = (p \in g.dirs)
    /\ (p \in DOMAIN f.files) = (p \in DOMAIN g.files)
    /\ p \in DOMAIN f.files /\ p \in DOMAIN g.files => f.files[p] = g.files[p]

\* the calls that change the filesystem, and the lines a call accounts for
Mutating(call) == call.op \in {"copy", "create_dir_all", "remove_file"}
Logged(call) == call.op \in {"copy", "create_dir_all", "remove_file"}
NumLogged(calls) == Cardinality({ i \in 1..Len(calls) : Logged(calls[i]) })

(* ---------------------------------------------------------------------- *)
(* C1  Readiness                                                           *)
(* ---------------------------------------------------------------------- *)

\* C1: a Copy message handled while the install, a Version or a WTF is
\* absent makes do_copy return the "not ready" error before any filesystem
\* call (nothing is copied, created or deleted), and copy_logs becomes
\* exactly one line, that error.
C1_NotReadyNoIO ==
    Ran /\ AnyAbsent(LOp) =>
        /\ LRun.err = Some("operation not ready for copying!")
        /\ Calls = <<>>
        /\ fs = Before
        /\ copy_logs # None /\ Len(copy_logs[1]) = 1
        /\ copy_logs[1][1] = NotReadyLine

\* a Copy handled with everything chosen but the destination WTF, after an
\* earlier run had left a log
C1_Witness ==
    /\ Ran /\ LOp.install # None /\ LOp.src_wtf # None /\ LOp.dst_ver # None
    /\ LOp.dst_wtf = None
    /\ last[1].prev # None
    /\ copy_logs = Some(<< NotReadyLine >>)

(* ---------------------------------------------------------------------- *)
(* C2  Account skip                                                        *)
(* ---------------------------------------------------------------------- *)

\* C2: in a ready run whose source and destination account are equal, or
\* with overwrite_account false, the account-level step is the one line
\* "skipping account copy." (every other line of the log belongs to a call
\* of the character-level step), no call of the run names an account-scoped
\* path of the destination, and every such path is after the run what it
\* was before.
C2_AccountSkip ==
    RanReady /\ SkipCase(LOp) =>
        /\ Log # <<>> /\ Log[1] = SkipLine
        /\ \A i \in 2..Len(Log) : Log[i] # SkipLine
        /\ Len(Log) = 1 + NumLogged(Calls)
        /\ \A i \in 1..Len(Calls) :
              /\ ~AccountScoped(dst_root(LOp), Calls[i].dst)
              /\ Calls[i].op # "read_dir" =>
                    IsUnder(Calls[i].dst, dst_character(LOp))
        /\ \A p \in AllPaths(Before) \cup AllPaths(After) :
              AccountScoped(dst_root(LOp), p) => SameAt(Before, After, p)

\* a run skipped only because overwrite_account is false, between two
\* different accounts, that went on to change character files
C2_Witness ==
    /\ RanReady
    /\ LOp.src_wtf[1].account # LOp.dst_wtf[1].account
    /\ LOp.overwrite_account = FALSE
    /\ LRun.err = None
    /\ After # Before

(* ---------------------------------------------------------------------- *)
(* C3  Partial-failure independence                                        *)
(* ---------------------------------------------------------------------- *)

\* the calls of the run that copy src to dst
CopyIdx(src, dst) ==
    { i \in 1..Len(Calls) :
        Calls[i].op = "copy" /\ Calls[i].src = src /\ Calls[i].dst = dst }

\* the position in the log of the line that the i-th call pushed
LinePos(i) ==
    (IF Log # <<>> /\ Log[1] = SkipLine THEN 1 ELSE 0)
    + NumLogged(SubSeq(Calls, 1, i))

\* every file of the catalog is attempted exactly once, src_dir to dst_dir,
\* and its attempt pushed one line: success naming the file, or an error
\* naming its path
CatalogDone(files, src_dir, dst_dir, name_src) ==
    \A k \in 1..Len(files) :
        LET src == Join(src_dir, files[k])
            dst == Join(dst_dir, files[k])
        IN  /\ Cardinality(CopyIdx(src, dst)) = 1
            /\ \A i \in CopyIdx(src, dst) :
                  /\ LinePos(i) \in 1..Len(Log)
                  /\ IF Calls[i].ok
                     THEN Log[LinePos(i)] = Line("copied", << files[k] >>, "")
                     ELSE /\ Log[LinePos(i)].kind = "error copying"
                          /\ Log[LinePos(i)].what = (IF name_src THEN src ELSE dst)
                          /\ Log[LinePos(i)].err # ""

\* listing the source account's SavedVariables failed
AcctListFailed ==
    \E i \in 1..Len(Calls) :
        /\ Calls[i].op = "read_dir" /\ ~Calls[i].ok
        /\ Calls[i].src = SV(src_root(LOp))

FailedCopies == { i \in 1..Len(Calls) : Calls[i].op = "copy" /\ ~Calls[i].ok }

\* C3 as claimed: in a ready run the four account catalog files (when the
\* account step is not skipped) and, always, the five character catalog
\* files are each attempted exactly once with exactly one log line.
C3_Original ==
    RanReady =>
        /\ ~SkipCase(LOp) =>
              CatalogDone(account_files, src_root(LOp), dst_root(LOp), TRUE)
        /\ CatalogDone(character_files, src_character(LOp), dst_character(LOp), FALSE)

\* C3 amended: in a ready run the four account catalog files (when the
\* account step is not skipped) and the five character catalog files (when
\* listing the source account's SavedVariables did not fail) are each
\* attempted exactly once with exactly one log line, success or an error
\* naming the file, whichever of the copies fail.
C3_CatalogIndependence ==
    RanReady =>
        /\ ~SkipCase(LOp) =>
              CatalogDone(account_files, src_root(LOp), dst_root(LOp), TRUE)
        /\ ~AcctListFailed =>
              CatalogDone(character_files, src_character(LOp), dst_character(LOp),
                          FALSE)

\* a run through both catalogs with at least three failing copies, one of
\* them in the account catalog and followed by a successful copy in the
\* character catalog
C3_Witness ==
    /\ RanReady /\ ~SkipCase(LOp) /\ LRun.err = None
    /\ Cardinality(FailedCopies) >= 3
    /\ \E i \in FailedCopies : \E j \in (i + 1)..Len(Calls) :
          /\ Calls[i].dst \in In(dst_root(LOp), Range(account_files))
          /\ Calls[j].op = "copy" /\ Calls[j].ok
          /\ Calls[j].dst \in In(dst_character(LOp), Range(character_files))

(* ---------------------------------------------------------------------- *)
(* C4  Fatal structural error                                              *)
(* ---------------------------------------------------------------------- *)

\* the calls whose failure is structural
StructuralFailures ==
    { i \in 1..Len(Calls) :
        Calls[i].op \in {"read_dir", "try_exists", "create_dir_all"} /\ ~Calls[i].ok }

\* what the successful calls of the run did is still in place afterwards
EffectsInPlace ==
    \A i \in 1..Len(Calls) :
        /\ Calls[i].op = "copy" /\ Calls[i].ok =>
              /\ Calls[i].dst \in DOMAIN After.files
              /\ After.files[Calls[i].dst] =
                    (IF Calls[i].src = Calls[i].dst THEN Truncated
                     ELSE Before.files[Calls[i].src])
        /\ Calls[i].op = "remove_file" /\ Calls[i].ok => ~Exists(After, Calls[i].dst)
        /\ Calls[i].op = "create_dir_all" /\ Calls[i].ok => Calls[i].dst \in After.dirs

\* C4: when listing a source SavedVariables directory of the run fails, or
\* checking or creating the destination character SavedVariables directory
\* fails, the run returns that error instead of a log, the failing call is
\* the last filesystem call of the run, and the effects of the calls before
\* it are left in place.
C4_FatalStructural ==
    RanReady /\ StructuralFailures # {} =>
        /\ LRun.err # None
        /\ copy_logs = Some(<< FatalLine(LRun.err[1]) >>)
        /\ StructuralFailures = { Len(Calls) }
        /\ EffectsInPlace
        /\ fs = After

\* a run that copied account files, then failed to list the source
\* account's SavedVariables
C4_Witness ==
    /\ RanReady /\ AcctListFailed
    /\ \E i \in 1..Len(Calls) : Calls[i].op = "copy" /\ Calls[i].ok
    /\ After # Before

(* ---------------------------------------------------------------------- *)
(* C5  Error surfacing                                                     *)
(* ---------------------------------------------------------------------- *)

HasCall(op, src, dst) ==
    \E i \in 1..Len(Calls) :
        Calls[i].op = op /\ Calls[i].src = src /\ Calls[i].dst = dst

\* the run went through every step of do_copy
EveryStep ==
    /\ ~SkipCase(LOp) =>
          /\ \A k \in 1..Len(account_files) :
                HasCall("copy", Join(src_root(LOp), account_files[k]),
                        Join(dst_root(LOp), account_files[k]))
          /\ HasCall("read_dir", SV(src_root(LOp)), <<>>)
          /\ HasCall("remove_file", <<>>, Join(dst_root(LOp), cache_md5))
    /\ \A k \in 1..Len(character_files) :
          HasCall("copy", Join(src_character(LOp), character_files[k]),
                  Join(dst_character(LOp), character_files[k]))
    /\ HasCall("try_exists", <<>>, SV(dst_character(LOp)))
    /\ HasCall("read_dir", SV(src_character(LOp)), <<>>)
    /\ Calls[Len(Calls)] =
          Call("remove_file", <<>>, Join(dst_character(LOp), cache_md5),
               Calls[Len(Calls)].ok)
    /\ Len(Log) = (IF SkipCase(LOp) THEN 1 ELSE 0) + NumLogged(Calls)

\* C5: after a Copy message copy_logs is either the whole log of a run that
\* went through every step, or exactly one line, the message of the fatal
\* error; the lines logged before a fatal error and the lines of the
\* earlier copy_logs are not in it.
C5_ErrorSurfacing ==
    Ran =>
        \/ /\ LRun.err = None
           /\ ~AnyAbsent(LOp) /\ EveryStep
           /\ copy_logs = Some(Log)
        \/ /\ LRun.err # None
           /\ copy_logs = Some(<< FatalLine(LRun.err[1]) >>)
           /\ \A i \in 1..Len(Log) : Log[i] # copy_logs[1][1]

\* a run that had logged lines when a fatal error ended it, after an
\* earlier run had left a log
C5_Witness ==
    /\ RanReady /\ LRun.err # None /\ Len(Log) >= 2
    /\ last[1].prev # None
    /\ Len(copy_logs[1]) = 1

(* ---------------------------------------------------------------------- *)
(* C6  Character step                                                      *)
(* ---------------------------------------------------------------------- *)

\* the character-level step was performed: its five catalog copies were
\* attempted and the check of the destination SavedVariables followed
CharStepPerformed ==
    /\ \A k \in 1..Len(character_files) :
          HasCall("copy", Join(src_character(LOp), character_files[k]),
                  Join(dst_character(LOp), character_files[k]))
    /\ \E i \in 1..Len(Calls) :
          Calls[i].op = "try_exists" /\ Calls[i].dst = SV(dst_character(LOp))

\* C6 as claimed: every ready run performs the character-level step,
\* whatever the outcome of the account-level step.
C6_Original == RanReady => CharStepPerformed

\* C6 amended: a ready run performs the character-level step exactly when
\* the account-level step was skipped or ran to its end, with or without
\* per-file and cache.md5 errors; a failure to list the source account's
\* SavedVariables ends the run before the character-level step.
C6_CharStepUnlessAccountFatal ==
    RanReady => (CharStepPerformed <=> ~AcctListFailed)

\* a run whose account-level step had failing copies and a failing
\* cache.md5 removal, and whose character-level step was performed
C6_Witness ==
    /\ RanReady /\ ~SkipCase(LOp) /\ CharStepPerformed
    /\ \E i \in FailedCopies :
          Calls[i].dst \in In(dst_root(LOp), Range(account_files))
    /\ \E i \in 1..Len(Calls) :
          /\ Calls[i].op = "remove_file" /\ ~Calls[i].ok
          /\ Calls[i].dst = Join(dst_root(LOp), cache_md5)

(* ---------------------------------------------------------------------- *)
(* C7  Creation of the destination SavedVariables directory                *)
(* ---------------------------------------------------------------------- *)

SrcVars == SV(src_character(LOp))
DstVars == SV(dst_character(LOp))

\* the names of the regular files with extension lua directly inside dir
LuaFilesIn(f, dir) ==
    { n \in Range(EntryOrder) :
        Join(dir, n) \in DOMAIN f.files /\ extension(n) = Some("lua") }

CreateCalls ==
    { i \in 1..Len(Calls) : Calls[i].op = "create_dir_all" /\ Calls[i].dst = DstVars }

\* the creation is logged with one line and precedes, in the calls and in
\* the log, every copy into the directory
CreationLoggedFirst ==
    /\ Cardinality({ i \in 1..Len(Log) : Log[i] = CreatingLine(DstVars) }) = 1
    /\ Cardinality(CreateCalls) = 1
    /\ \A i \in CreateCalls :
          /\ LinePos(i) \in 1..Len(Log) /\ Log[LinePos(i)] = CreatingLine(DstVars)
          /\ \A j \in 1..Len(Calls) :
                Calls[j].op = "copy" /\ IsUnder(Calls[j].dst, DstVars) => i < j

\* C7 as claimed: in every ready run that finds the destination character's
\* SavedVariables directory absent, the directory exists afterwards and
\* holds every .lua file of the source character's SavedVariables, and the
\* creation is logged with one line before any such file is copied.
C7_Original ==
    RanReady /\ ~Exists(Before, DstVars) =>
        /\ DstVars \in fs.dirs
        /\ \A n \in LuaFilesIn(Before, SrcVars) : Join(DstVars, n) \in DOMAIN fs.files
        /\ CreationLoggedFirst

\* C7 amended: in every ready run that returns a log and found the
\* destination character's SavedVariables directory absent, the directory
\* exists afterwards, its creation is logged with one line before any file
\* is copied into it, and every .lua file of the source character's
\* SavedVariables was attempted once: it is in the directory with the
\* source's content, or its copy failed and an error line names it.
C7_CreatedWhenLogReturned ==
    RanReady /\ ~Exists(Before, DstVars) /\ LRun.err = None =>
        /\ DstVars \in fs.dirs
        /\ CreationLoggedFirst
        /\ \A n \in LuaFilesIn(Before, SrcVars) :
              LET src == Join(SrcVars, n)
                  dst == Join(DstVars, n)
              IN  /\ Cardinality(CopyIdx(src, dst)) = 1
                  /\ \A i \in CopyIdx(src, dst) :
                        IF Calls[i].ok
                        THEN /\ dst \in DOMAIN fs.files
                             /\ fs.files[dst] = Before.files[src]
                        ELSE /\ ~Exists(fs, dst)
                             /\ Log[LinePos(i)].kind = "error copying"
                             /\ Log[LinePos(i)].what = dst

\* a run that created the directory and copied a .lua file into it
C7_Witness ==
    /\ RanReady /\ ~Exists(Before, DstVars) /\ LRun.err = None
    /\ \E n \in LuaFilesIn(Before, SrcVars) :
          /\ Join(DstVars, n) \in DOMAIN fs.files
          /\ fs.files[Join(DstVars, n)] = Join(SrcVars, n)

(* ---------------------------------------------------------------------- *)
(* C8  SavedVariables filter                                               *)
(* ---------------------------------------------------------------------- *)

ListedOk(dir) ==
    \E i \in 1..Len(Calls) :
        Calls[i].op = "read_dir" /\ Calls[i].ok /\ Calls[i].src = dir

\* the entries of src_dir for which a copy into dst_dir was attempted
AttemptedEntries(src_dir, dst_dir) ==
    { n \in Range(EntryOrder) : CopyIdx(Join(src_dir, n), Join(dst_dir, n)) # {} }

\* C8: of the entries directly inside a listed source SavedVariables
\* folder, a copy is attempted (and a line logged) exactly for the regular
\* files with extension lua; other files, files without extension and
\* subdirectories, whatever their name, are not attempted.
C8_LuaFilesOnly ==
    RanReady =>
        /\ ListedOk(SV(src_root(LOp))) =>
              AttemptedEntries(SV(src_root(LOp)), SV(dst_root(LOp)))
                  = LuaFilesIn(Before, SV(src_root(LOp)))
        /\ ListedOk(SrcVars) =>
              AttemptedEntries(SrcVars, DstVars) = LuaFilesIn(Before, SrcVars)

(* ---------------------------------------------------------------------- *)
(* C9  Round trip                                                          *)
(* ---------------------------------------------------------------------- *)

\* version V1 / account X / character Y to version V2 / account X /
\* character Y, overwrite disabled
RoundTrip(o) ==
    /\ o.src_ver[1].name # o.dst_ver[1].name
    /\ o.src_wtf[1].account = o.dst_wtf[1].account
    /\ o.src_wtf[1].realm = o.dst_wtf[1].realm
    /\ o.src_wtf[1].character = o.dst_wtf[1].character
    /\ o.overwrite_account = FALSE

AccountFilesUntouched ==
    \A p \in AllPaths(Before) \cup AllPaths(fs) :
        AccountScoped(dst_root(LOp), p) => SameAt(Before, fs, p)

\* the character-scoped file names: the catalog, and the .lua names
LuaNames == { n \in Range(EntryOrder) : extension(n) = Some("lua") }

\* the file at p and the file at q are both absent, or both there with the
\* same content
FilesMatch(f, p, q) ==
    /\ (p \in DOMAIN f.files) = (q \in DOMAIN f.files)
    /\ p \in DOMAIN f.files /\ q \in DOMAIN f.files => f.files[p] = f.files[q]

\* C9 as claimed: the round trip leaves the account-scoped files at V2
\* unchanged, and afterwards the five catalog files and the .lua files of
\* SavedVariables at V2 match those at V1.
C9_Original ==
    RanReady /\ RoundTrip(LOp) =>
        /\ AccountFilesUntouched
        /\ \A n \in Range(character_files) :
              FilesMatch(fs, Join(src_character(LOp), n), Join(dst_character(LOp), n))
        /\ \A n \in LuaNames :
              FilesMatch(fs, Join(SrcVars, n), Join(DstVars, n))

\* src (at V1) was attempted once; V2's file has V1's content, or the copy
\* failed, an error line names it and V2's file is as it was
CopiedOrReported(src, dst) ==
    /\ Cardinality(CopyIdx(src, dst)) = 1
    /\ \A i \in CopyIdx(src, dst) :
          IF Calls[i].ok
          THEN /\ dst \in DOMAIN fs.files /\ src \in DOMAIN fs.files
               /\ fs.files[dst] = fs.files[src]
          ELSE /\ SameAt(Before, fs, dst)
               /\ LinePos(i) \in 1..Len(Log)
               /\ Log[LinePos(i)].kind = "error copying"
               /\ Log[LinePos(i)].what = dst

\* C9 amended: the round trip leaves the account-scoped files at V2 and
\* every file at V1 unchanged; when it returns a log, each of the five
\* catalog files and each .lua file of SavedVariables present at V1 was
\* attempted once and is at V2 with V1's content, or its copy failed and an
\* error line names it; a character-scoped file that V1 does not have is
\* left at V2 as it was.
C9_RoundTripCopiesWhatSucceeds ==
    RanReady /\ RoundTrip(LOp) =>
        /\ AccountFilesUntouched
        /\ \A p \in AllPaths(Before) \cup AllPaths(fs) :
              IsUnder(p, src_root(LOp)) => SameAt(Before, fs, p)
        /\ LRun.err = None =>
              /\ \A n \in Range(character_files) :
                    LET src == Join(src_character(LOp), n)
                        dst == Join(dst_character(LOp), n)
                    IN  IF src \in DOMAIN Before.files
                        THEN CopiedOrReported(src, dst)
                        ELSE SameAt(Before, fs, dst)
              /\ \A n \in LuaNames :
                    LET src == Join(SrcVars, n)
                        dst == Join(DstVars, n)
                    IN  IF src \in DOMAIN Before.files
                        THEN CopiedOrReported(src, dst)
                        ELSE SameAt(Before, fs, dst)

\* a round trip that returned a log, replaced a catalog file and a .lua
\* file at V2 by V1's, and left at V2 a .lua file that V1 does not have
C9_Witness ==
    /\ RanReady /\ RoundTrip(LOp) /\ LRun.err = None
    /\ \E n \in Range(character_files) :
          /\ Join(dst_character(LOp), n) \in DOMAIN Before.files
          /\ fs.files[Join(dst_character(LOp), n)] = Join(src_character(LOp), n)
    /\ \E n \in LuaNames :
          /\ Join(DstVars, n) \in DOMAIN fs.files
          /\ fs.files[Join(DstVars, n)] = Join(SrcVars, n)
    /\ \E n \in LuaNames :
          /\ Join(DstVars, n) \in DOMAIN fs.files
          /\ Join(SrcVars, n) \notin DOMAIN fs.files

(* ---------------------------------------------------------------------- *)
(* C10  cache.md5 invalidation                                             *)
(* ---------------------------------------------------------------------- *)

RemoveIdx(p) ==
    { i \in 1..Len(Calls) : Calls[i].op = "remove_file" /\ Calls[i].dst = p }

AcctCache == Join(dst_root(LOp), cache_md5)
CharCache == Join(dst_character(LOp), cache_md5)

\* C10: every removal of a cache.md5 pushes one line, success or error,
\* and a failing removal is never the error the run returns: after a
\* failing account-level removal the character-level step is performed.
\* A run that returns a log attempted the removal of the destination
\* character's cache.md5 once, as its last call with its outcome as the
\* last line, and attempted the removal of the destination account's
\* cache.md5 (once) exactly when the account step was not skipped.
C10_CacheRemovalNonFatal ==
    RanReady =>
        /\ \A i \in 1..Len(Calls) :
              Calls[i].op = "remove_file" =>
                 /\ LinePos(i) \in 1..Len(Log)
                 /\ IF Calls[i].ok
                    THEN Log[LinePos(i)] = Line("removed", << cache_md5 >>, "")
                    ELSE /\ Log[LinePos(i)].kind = "error removing"
                         /\ Log[LinePos(i)].what = Calls[i].dst
                         /\ Log[LinePos(i)].err # ""
                 /\ Calls[i].dst = AcctCache /\ AcctCache # CharCache =>
                       CharStepPerformed
        /\ LRun.err # None => Calls[Len(Calls)].op # "remove_file"
        /\ LRun.err = None =>
              /\ Cardinality(RemoveIdx(CharCache)) = 1
              /\ RemoveIdx(CharCache) = { Len(Calls) }
              /\ LinePos(Len(Calls)) = Len(Log)
              /\ Cardinality(RemoveIdx(AcctCache)) = (IF SkipCase(LOp) THEN 0 ELSE 1)

\* a run that returned a log although both removals failed
C10_Witness ==
    /\ RanReady /\ ~SkipCase(LOp) /\ LRun.err = None
    /\ \A i \in RemoveIdx(AcctCache) \cup RemoveIdx(CharCache) : ~Calls[i].ok
    /\ RemoveIdx(AcctCache) # {}
    /\ copy_logs[1][Len(copy_logs[1])].kind = "error removing"

(* ---------------------------------------------------------------------- *)
(* C11  Log order and count                                                *)
(* ---------------------------------------------------------------------- *)

\* the entries of dir whose name has the extension lua
LuaEntries(f, dir) ==
    { n \in Range(EntryOrder) :
        Exists(f, Join(dir, n)) /\ extension(n) = Some("lua") }

IsCall(i, op, src, dst) ==
    /\ i \in 1..Len(Calls)
    /\ Calls[i].op = op /\ Calls[i].src = src /\ Calls[i].dst = dst

\* the calls first..first+n-1 copy the n entries of names from src_dir to
\* dst_dir, each once
CopiesOf(first, names, src_dir, dst_dir) ==
    /\ \A i \in first..(first + Cardinality(names) - 1) :
          /\ i \in 1..Len(Calls) /\ Calls[i].op = "copy"
          /\ \E n \in names :
                Calls[i].src = Join(src_dir, n) /\ Calls[i].dst = Join(dst_dir, n)
    /\ \A n \in names :
          \E i \in first..(first + Cardinality(names) - 1) :
              i \in 1..Len(Calls) /\ Calls[i].src = Join(src_dir, n)

\* the line at the position of the i-th call is the line of that call;
\* an account-level copy that fails names its source, a character-level
\* one its destination
LineOfCall(i, account_level) ==
    /\ LinePos(i) \in 1..Len(Log)
    /\ LET l == Log[LinePos(i)]
           c == Calls[i]
       IN  CASE c.op = "copy" ->
                  IF c.ok THEN l = Line("copied", << FileNameOf(c.dst) >>, "")
                  ELSE /\ l.kind = "error copying" /\ l.err # ""
                       /\ l.what = (IF account_level THEN c.src ELSE c.dst)
             [] c.op = "remove_file" ->
                  IF c.ok THEN l = Line("removed", << cache_md5 >>, "")
                  ELSE l.kind = "error removing" /\ l.what = c.dst /\ l.err # ""
             [] c.op = "create_dir_all" -> l = CreatingLine(c.dst)
             [] OTHER -> FALSE

\* C11: the log of a ready run that returns a log has one line per copy,
\* removal, directory creation or skipped account step, in the order of
\* execution: the skip line, or the four account catalog files in catalog
\* order, the account .lua entries and the account cache.md5; then the
\* five character catalog files in catalog order, the creation of the
\* destination SavedVariables directory when it was absent, the character
\* .lua entries and the character cache.md5; copy_logs is that log.
C11_LogOrder ==
    RanReady /\ LRun.err = None =>
        LET skip == SkipCase(LOp)
            nA == Cardinality(LuaEntries(Before, SV(src_root(LOp))))
            nC == Cardinality(LuaEntries(Before, SrcVars))
            base == IF skip THEN 0 ELSE 6 + nA
            cr == IF Exists(Before, DstVars) THEN 0 ELSE 1
        IN  /\ Len(Calls) = base + 8 + cr + nC
            /\ ~skip =>
                  /\ \A k \in 1..Len(account_files) :
                        IsCall(k, "copy", Join(src_root(LOp), account_files[k]),
                               Join(dst_root(LOp), account_files[k]))
                  /\ IsCall(5, "read_dir", SV(src_root(LOp)), <<>>)
                  /\ CopiesOf(6, LuaEntries(Before, SV(src_root(LOp))),
                              SV(src_root(LOp)), SV(dst_root(LOp)))
                  /\ IsCall(6 + nA, "remove_file", <<>>, AcctCache)
            /\ \A k \in 1..Len(character_files) :
                  IsCall(base + k, "copy", Join(src_character(LOp), character_files[k]),
                         Join(dst_character(LOp), character_files[k]))
            /\ IsCall(base + 6, "try_exists", <<>>, DstVars)
            /\ cr = 1 => IsCall(base + 7, "create_dir_all", <<>>, DstVars)
            /\ IsCall(base + 7 + cr, "read_dir", SrcVars, <<>>)
            /\ CopiesOf(base + 8 + cr, LuaEntries(Before, SrcVars), SrcVars, DstVars)
            /\ IsCall(base + 8 + cr + nC, "remove_file", <<>>, CharCache)
            /\ Len(Log) = (IF skip THEN 1 ELSE 0) + NumLogged(Calls)
            /\ skip => Log[1] = SkipLine
            /\ \A i \in 1..Len(Calls) :
                  Logged(Calls[i]) => LineOfCall(i, i <= base)
            /\ copy_logs = Some(Log)

\* a run that returned a log of every kind of line: account catalog and
\* .lua lines, the creation of the destination directory, two character
\* .lua lines listed in reverse order, a failed copy and the two cache.md5
\* lines
C11_Witness ==
    /\ RanReady /\ LRun.err = None /\ ~SkipCase(LOp)
    /\ LuaEntries(Before, SV(src_root(LOp))) # {}
    /\ CreateCalls # {}
    /\ FailedCopies # {}
    /\ \E i \in 1..Len(Calls) : \E j \in (i + 1)..Len(Calls) :
          /\ Calls[i].op = "copy" /\ Calls[i].dst = Join(DstVars, F("c", "lua"))
          /\ Calls[j].op = "copy" /\ Calls[j].dst = Join(DstVars, F("a", "lua"))
    /\ Len(copy_logs[1]) = Len(Calls) - 3

(* ---------------------------------------------------------------------- *)
(* C12  Selection invariant                                                *)
(* ---------------------------------------------------------------------- *)

\* C12: on each side a WTF is chosen only if a Version is chosen, and the
\* chosen WTF is an entry of the version of that name in the current
\* install.
C12_SelectionInvariant ==
    \A is_source \in BOOLEAN :
        WtfOf(is_source) # None =>
            /\ VerOf(is_source) # None
            /\ install # None
            /\ \E v \in Range(install[1].versions) :
                  /\ v.name = VerOf(is_source)[1].name
                  /\ WtfOf(is_source)[1] \in Range(v.wtfs)

\* both sides chosen, in different versions, the last by a Wtf message,
\* after a copy run created a SavedVariables folder and the install was
\* scanned anew
C12_Witness ==
    /\ src_wtf # None /\ dst_wtf # None
    /\ src_ver[1].name # dst_ver[1].name
    /\ msg # None /\ msg[1].type = "Wtf"
    /\ SV(AcctDir(Retail, AcctW)) \notin fs.dirs
    /\ install = get_wow_install(fs, Root)
    /\ install # get_wow_install(InitialFS(FALSE, FALSE), Root)

(* ---------------------------------------------------------------------- *)
(* C13  Installation change                                                *)
(* ---------------------------------------------------------------------- *)

\* C13: a step that handles an Install message whose chooser yields an
\* installation sets install to it and clears the Version and the WTF of
\* both sides; one whose chooser yields nothing leaves install and the
\* four selections unchanged.
C13_InstallChange ==
    [][ msg' # None /\ msg'[1].type = "Install" =>
          IF msg'[1].chosen # None
          THEN /\ install' = msg'[1].chosen
               /\ src_ver' = None /\ src_wtf' = None
               /\ dst_ver' = None /\ dst_wtf' = None
          ELSE UNCHANGED <<install, src_ver, src_wtf, dst_ver, dst_wtf>> ]_vars

\* the install was replaced by the one of another folder after a ready
\* copy run, and nothing is chosen
C13_Witness ==
    /\ msg # None /\ msg[1].type = "Install" /\ msg[1].chosen = install
    /\ install # None /\ install[1].install_dir = OtherRoot
    /\ src_ver = None /\ src_wtf = None /\ dst_ver = None /\ dst_wtf = None
    /\ copy_logs # None /\ Len(copy_logs[1]) > 1

(* ---------------------------------------------------------------------- *)
(* C14  Source filter                                                      *)
(* ---------------------------------------------------------------------- *)

\* C14: while a side has a Version chosen, the WTF buttons of the source
\* column are the entries of the chosen version with has_vars true and
\* those of the destination column are all its entries; a chosen source
\* WTF has has_vars true.
C14_SourceFilter ==
    /\ src_wtf # None => src_wtf[1].has_vars = TRUE
    /\ install # None /\ src_ver # None =>
          OfferedWtfs(install[1], src_ver[1], TRUE)
              = { w \in Range(src_ver[1].wtfs) : w.has_vars = TRUE }
    /\ install # None /\ dst_ver # None =>
          OfferedWtfs(install[1], dst_ver[1], FALSE) = Range(dst_ver[1].wtfs)

\* both columns show a version whose only entry has no SavedVariables:
\* the source column offers nothing, the destination has chosen the entry,
\* after a source with SavedVariables had been chosen and reset
C14_Witness ==
    /\ install # None /\ src_ver # None /\ src_ver = dst_ver
    /\ \E w \in Range(src_ver[1].wtfs) : w.has_vars = FALSE
    /\ OfferedWtfs(install[1], src_ver[1], TRUE) = {}
    /\ dst_wtf # None /\ dst_wtf[1].has_vars = FALSE
    /\ copy_logs # None /\ Len(copy_logs[1]) > 1

(* ---------------------------------------------------------------------- *)
(* C15  Disjoint path sets                                                 *)
(* ---------------------------------------------------------------------- *)

\* the paths the run reads: the sources of its copies and the directories
\* it lists
PathsRead ==
    { Calls[i].src : i \in { j \in 1..Len(Calls) :
                               Calls[j].op \in {"copy", "read_dir"} } }

\* the paths the run writes, creates or deletes
PathsWritten ==
    { Calls[i].dst : i \in { j \in 1..Len(Calls) : Mutating(Calls[j]) } }

\* the files of the source character and account that the run may read
SourceFiles ==
    { p \in DOMAIN Before.files :
        \/ Parent(p) \in { src_character(LOp), SrcVars }
        \/ ~SkipCase(LOp) /\ Parent(p) \in { src_root(LOp), SV(src_root(LOp)) } }

\* C15: in every ready run the paths read and the paths written or deleted
\* are disjoint: no file is copied onto itself, and every file of the
\* source is afterwards what it was before.
C15_DisjointPaths ==
    RanReady =>
        /\ PathsRead \cap PathsWritten = {}
        /\ \A i \in 1..Len(Calls) : Calls[i].op = "copy" => Calls[i].src # Calls[i].dst
        /\ \A p \in SourceFiles : SameAt(Before, After, p)

(* ---------------------------------------------------------------------- *)
(* C16  Frame of update                                                    *)
(* ---------------------------------------------------------------------- *)

\* C16: a step that handles Copy changes none of install, the four
\* selections and overwrite_account, and sets copy_logs; Reset(side)
\* clears the Version and the WTF of that side and changes nothing else;
\* OverwriteToggle(o) sets overwrite_account to o and changes nothing else;
\* Version(v, side) sets that side's Version to v, Wtf(w, side) that side's
\* WTF to w, and they change nothing else.  Only Copy changes the
\* filesystem.
C16_Frame ==
    [][ msg' # None =>
          LET m == msg'[1]
          IN  CASE m.type = "Copy" ->
                     /\ UNCHANGED <<install, src_ver, src_wtf, dst_ver, dst_wtf,
                                    overwrite_account>>
                     /\ copy_logs' # None
                [] m.type = "Reset" ->
                     /\ IF m.is_source
                        THEN /\ src_ver' = None /\ src_wtf' = None
                             /\ UNCHANGED <<dst_ver, dst_wtf>>
                        ELSE /\ dst_ver' = None /\ dst_wtf' = None
                             /\ UNCHANGED <<src_ver, src_wtf>>
                     /\ UNCHANGED <<install, overwrite_account, copy_logs, fs>>
                [] m.type = "OverwriteToggle" ->
                     /\ overwrite_account' = m.o
                     /\ UNCHANGED <<install, src_ver, src_wtf, dst_ver, dst_wtf,
                                    copy_logs, fs>>
                [] m.type = "Version" ->
                     /\ IF m.is_source
                        THEN src_ver' = Some(m.ver) /\ UNCHANGED dst_ver
                        ELSE dst_ver' = Some(m.ver) /\ UNCHANGED src_ver
                     /\ UNCHANGED <<install, src_wtf, dst_wtf, overwrite_account,
                                    copy_logs, fs>>
                [] m.type = "Wtf" ->
                     /\ IF m.is_source
                        THEN src_wtf' = Some(m.wtf) /\ UNCHANGED dst_wtf
                        ELSE dst_wtf' = Some(m.wtf) /\ UNCHANGED src_wtf
                     /\ UNCHANGED <<install, src_ver, dst_ver, overwrite_account,
                                    copy_logs, fs>>
                [] OTHER -> TRUE ]_vars

\* a Copy with overwrite_account set that ended with a fatal error after
\* it had changed files: the selections are all still there
C16_Witness ==
    /\ msg = Some(MsgCopy)
    /\ RanReady /\ LRun.err # None /\ After # Before
    /\ src_ver # None /\ src_wtf # None /\ dst_ver # None /\ dst_wtf # None
    /\ overwrite_account = TRUE
    /\ Len(copy_logs[1]) = 1

(* ---------------------------------------------------------------------- *)
(* C17  No stale selection                                                 *)
(* ---------------------------------------------------------------------- *)

\* the lookup of ver_column finds a version of the install
LookupFinds(ver) ==
    \E v \in Range(install[1].versions) :
        VersionToString(v) = VersionToString(ver)

\* C17: whenever a side has a Version chosen, install is present and has a
\* version with the display string of the chosen one, so the lookup of
\* ver_column finds it; a copy run that is ready has an install.
C17_NoStaleSelection ==
    /\ \A is_source \in BOOLEAN :
          VerOf(is_source) # None =>
              install # None /\ LookupFinds(VerOf(is_source)[1])
    /\ Ran /\ LOp.src_ver # None /\ LOp.src_wtf # None
           /\ LOp.dst_ver # None /\ LOp.dst_wtf # None
           /\ LRun.err # Some(NotReadyLine.err) => LOp.install # None

\* a destination chosen in the install of another folder, which lacks a
\* version the first install has, after a ready copy run in the first
C17_Witness ==
    /\ install # None /\ install[1].install_dir = OtherRoot
    /\ dst_ver # None /\ dst_wtf # None /\ src_ver # None
    /\ \E v \in Range(get_wow_install(fs, Root)[1].versions) :
          \A u \in Range(install[1].versions) : u.name # v.name
    /\ copy_logs # None /\ Len(copy_logs[1]) > 1

(* ---------------------------------------------------------------------- *)
(* C18  Overwrite toggle                                                   *)
(* ---------------------------------------------------------------------- *)

\* the account-level step of the run was skipped
AccountStepSkipped == Log # <<>> /\ Log[1] = SkipLine

\* C18: in every ready run started where the destination column offers the
\* checkbox, the account-level step is performed when overwrite_account is
\* true and skipped when it is false.
C18_ToggleEffective ==
    RanReady /\ ToggleOffered =>
        (LOp.overwrite_account <=> ~AccountStepSkipped)

====
